---- MODULE Spec2Model ----
(***************************************************************************)
(* A model of wordle-helper (src/src/main.rs): the guess-token parser, the *)
(* clue extractor, the clue merger, the corpus matcher, the two ranking    *)
(* operations and the three request handlers that call them.               *)
(*                                                                         *)
(* A char is a one-character string; a Rust String or &str is a sequence   *)
(* of chars; a Vec is a sequence; a struct is a record; an enum value is a *)
(* record with a "tag" field; a Result is a record tagged "Ok" or "Err".   *)
(***************************************************************************)
EXTENDS Naturals, Sequences, FiniteSets

VARIABLES
    corpus,       \* AppState.corpus: Vec<(usize, Vec<String>)>
    most_common,  \* AppState.most_common: Vec<(usize, Vec<(char, usize)>)>
    secret,       \* the hidden word of the game the guesses are scored against
    request,      \* the request being served: [api, path, n, pattern]
    clues,        \* api_words: the Vec<WordClue> collected from the tokens
    result,       \* api_words: the clue folded by merge (a Result)
    response      \* the reply: [status, error, body, scans]

vars == <<corpus, most_common, secret, request, clues, result, response>>

----------------------------------------------------------------------------
(* Bounds of the model.                                                    *)

\* SpecMerge: guesses per request + letters per guess
MaxSize == 4
\* Spec: characters of an enumerated request path
MaxPathLen == 6
\* SpecGame: letters of the secret word and of every guess
GameLen == 3
\* SpecGame: guesses played in one game
MaxGuesses == 2
\* Spec: the largest word length asked of the ranking operations
MaxRankLen == 7

----------------------------------------------------------------------------
(* Characters and strings.                                                 *)

\* char as u32: the order `sorted()` uses on chars, and the UTF-8 width
CodePoint(c) ==
    CASE c = "/" -> 47
      [] c = "0" -> 48
      [] c = "1" -> 49
      [] c = "2" -> 50
      [] c = "A" -> 65
      [] c = "E" -> 69
      [] c = "L" -> 76
      [] c = "O" -> 79
      [] c = "P" -> 80
      [] c = "R" -> 82
      [] c = "S" -> 83
      [] c = "T" -> 84
      [] c = "U" -> 85
      [] c = "Y" -> 89
      [] c = "a" -> 97
      [] c = "s" -> 115
      [] c = "Ç" -> 199
      [] c = "ç" -> 231

\* bytes of one char in a String (UTF-8)
Utf8Len(c) == IF CodePoint(c) < 128 THEN 1 ELSE 2

UpperLetters == {"A", "E", "L", "O", "P", "R", "S", "T", "U", "Y"}
LowerLetters == {"a", "s"}
Digits02 == {"0", "1", "2"}

\* char::to_uppercase / str::to_uppercase, one char at a time
ToUpperChar(c) ==
    CASE c = "a" -> "A"
      [] c = "s" -> "S"
      [] c = "ç" -> "Ç"
      [] OTHER -> c

to_uppercase(s) == [i \in 1..Len(s) |-> ToUpperChar(s[i])]

\* str::len(): the length in bytes
RECURSIVE ByteLen(_)
ByteLen(s) == IF s = <<>> THEN 0 ELSE Utf8Len(Head(s)) + ByteLen(Tail(s))

\* str::split(sep): the pieces between the separators, empty pieces kept
split(s, sep) ==
    LET seps == {i \in 1..Len(s) : s[i] = sep}
        \* the k-th separator; 0 before the first, Len(s) + 1 after the last
        at(k) == IF k = 0 THEN 0
                 ELSE IF k > Cardinality(seps) THEN Len(s) + 1
                 ELSE CHOOSE i \in seps : Cardinality({j \in seps : j <= i}) = k
    IN [k \in 1..(Cardinality(seps) + 1) |-> SubSeq(s, at(k - 1) + 1, at(k) - 1)]

\* Itertools::sorted() on chars: ascending by code point (a stable sort: the
\* char at i lands after the smaller chars and the equal chars before i)
SortedChars(s) ==
    LET rank(i) == Cardinality({j \in 1..Len(s) :
                        \/ CodePoint(s[j]) < CodePoint(s[i])
                        \/ CodePoint(s[j]) = CodePoint(s[i]) /\ j <= i})
    IN [p \in 1..Len(s) |-> s[CHOOSE i \in 1..Len(s) : rank(i) = p]]

\* Itertools::dedup(): consecutive equal elements collapse to one
RECURSIVE Dedup(_)
Dedup(s) ==
    IF Len(s) < 2 THEN s
    ELSE IF s[1] = s[2] THEN Dedup(Tail(s))
    ELSE <<s[1]>> \o Dedup(Tail(s))

\* number of occurrences of c in s
RECURSIVE CountChar(_, _)
CountChar(c, s) ==
    IF s = <<>> THEN 0
    ELSE (IF Head(s) = c THEN 1 ELSE 0) + CountChar(c, Tail(s))

Range(s) == {s[i] : i \in 1..Len(s)}

----------------------------------------------------------------------------
(* The data model.                                                         *)

\* WordCluePattern::Letter(char)
Letter(l) == [tag |-> "Letter", l |-> l, v |-> <<>>]
\* WordCluePattern::Exclude(Vec<char>)
Exclude(v) == [tag |-> "Exclude", l |-> "", v |-> v]

WordClueLetter(l, c, e) == [letter |-> l, count |-> c, exact |-> e]

WordClue(p, ls) == [pattern |-> p, letters |-> ls]

LetterAnswer(l, a) == [letter |-> l, answer |-> a]

Ok(v) == [tag |-> "Ok", val |-> v, err |-> <<>>]
Err(e) == [tag |-> "Err", val |-> <<>>, err |-> e]

\* the index of the first WordClueLetter of `map` for `letter`, 0 when none:
\* map.iter().enumerate().find(|(_, WordClueLetter{letter: l, ..})| *l == letter)
FindLetter(map, letter) ==
    IF \E i \in 1..Len(map) : map[i].letter = letter
    THEN CHOOSE i \in 1..Len(map) :
            /\ map[i].letter = letter
            /\ \A j \in 1..(i - 1) : map[j].letter # letter
    ELSE 0

----------------------------------------------------------------------------
(* merge_letter_clue and merge.                                            *)

MergeLetterClueKeepCount(map, clue) ==
    LET idx == FindLetter(map, clue.letter) IN
    IF idx # 0
    THEN [map EXCEPT ![idx] =
            WordClueLetter(map[idx].letter, map[idx].count,
                           map[idx].exact \/ clue.exact)]
    ELSE Append(map, clue)

MergeLetterClueSum(map, clue) ==
    LET idx == FindLetter(map, clue.letter) IN
    IF idx # 0
    THEN [map EXCEPT ![idx] =
            WordClueLetter(map[idx].letter, map[idx].count + clue.count,
                           map[idx].exact \/ clue.exact)]
    ELSE Append(map, clue)

merge_letter_clue(map, clue) ==
    LET idx == FindLetter(map, clue.letter) IN
    IF idx # 0
    THEN [map EXCEPT ![idx] =
            WordClueLetter(map[idx].letter,
                           IF map[idx].count >= clue.count
                           THEN map[idx].count ELSE clue.count,
                           map[idx].exact \/ clue.exact)]
    ELSE Append(map, clue)

RECURSIVE MergeLetters(_, _)
MergeLetters(a_vec, b_letters) ==
    IF b_letters = <<>> THEN a_vec
    ELSE MergeLetters(merge_letter_clue(a_vec, Head(b_letters)), Tail(b_letters))

MergePositionLeftWins(a, b) ==
    IF a.tag = "Letter" /\ b.tag = "Letter"
    THEN IF a.l = b.l THEN Ok(Letter(a.l)) ELSE Err(<<"Conflict", a.l, b.l>>)
    ELSE IF a.tag = "Letter" THEN Ok(Letter(a.l))
    ELSE IF b.tag = "Letter" THEN Ok(Letter(b.l))
    ELSE Ok(Exclude(a.v))

\* the closure of merge's zip(..).map(..): one position of the two patterns
MergePosition(a, b) ==
    IF a.tag = "Letter" /\ b.tag = "Letter"
    THEN IF a.l = b.l THEN Ok(Letter(a.l)) ELSE Err(<<"Conflict", a.l, b.l>>)
    ELSE IF a.tag = "Letter" THEN Ok(Letter(a.l))
    ELSE IF b.tag = "Letter" THEN Ok(Letter(b.l))
    ELSE Ok(Exclude(Dedup(SortedChars(a.v \o b.v))))

\* collect::<Result<Vec<_>, _>>(): the first Err, or the Vec of the values
CollectResults(rs) ==
    IF \E i \in 1..Len(rs) : rs[i].tag = "Err"
    THEN LET first == CHOOSE i \in 1..Len(rs) :
                        /\ rs[i].tag = "Err"
                        /\ \A j \in 1..(i - 1) : rs[j].tag = "Ok"
         IN Err(rs[first].err)
    ELSE Ok([i \in 1..Len(rs) |-> rs[i].val])

MergeNoLengthCheck(a, b) ==
    LET n == IF Len(a.pattern) <= Len(b.pattern) THEN Len(a.pattern) ELSE Len(b.pattern)
        pattern == CollectResults([i \in 1..n |-> MergePosition(a.pattern[i], b.pattern[i])])
    IN IF pattern.tag = "Err" THEN pattern
       ELSE Ok(WordClue(pattern.val, MergeLetters(a.letters, b.letters)))

merge(a, b) ==
    IF Len(a.pattern) # Len(b.pattern)
    THEN Err(<<"Pattern length mismatch", Len(a.pattern), Len(b.pattern)>>)
    ELSE LET pattern == CollectResults(
                [i \in 1..Len(a.pattern) |-> MergePosition(a.pattern[i], b.pattern[i])])
         IN IF pattern.tag = "Err" THEN pattern
            ELSE Ok(WordClue(pattern.val, MergeLetters(a.letters, b.letters)))

----------------------------------------------------------------------------
(* extract_clue.                                                           *)

\* the find-or-insert of the Correct and Incorrect arms
CountLetter(letter_clues, letter) ==
    LET idx == FindLetter(letter_clues, letter) IN
    IF idx # 0
    THEN [letter_clues EXCEPT ![idx].count = @ + 1]
    ELSE Append(letter_clues, WordClueLetter(letter, 1, FALSE))

\* the first loop: st = [pattern, letter_clues, exclude] after the answers of word
RECURSIVE ExtractPass(_, _)
ExtractPass(word, st) ==
    IF word = <<>> THEN st
    ELSE LET la == Head(word) IN
         ExtractPass(Tail(word),
            CASE la.answer = "Correct" ->
                    [st EXCEPT !.pattern = Append(@, Letter(la.letter)),
                               !.letter_clues = CountLetter(@, la.letter)]
              [] la.answer = "Incorrect" ->
                    [st EXCEPT !.pattern = Append(@, Exclude(<<la.letter>>)),
                               !.letter_clues = CountLetter(@, la.letter)]
              [] la.answer = "NotInWord" ->
                    [st EXCEPT !.pattern = Append(@, Exclude(<<la.letter>>)),
                               !.exclude = Append(@, la.letter)])

\* the second loop: st = [letter_clues, result] after the pending absent letters
RECURSIVE ResolveExclude(_, _)
ResolveExclude(exclude, st) ==
    IF exclude = <<>> THEN st
    ELSE LET e == Head(exclude)
             idx == FindLetter(st.letter_clues, e)
         IN ResolveExclude(Tail(exclude),
                IF idx # 0
                THEN [st EXCEPT !.letter_clues[idx].exact = TRUE]
                ELSE [st EXCEPT !.result = Append(@, e)])

\* the absent letters resolved inside the first loop, against the entries met
\* so far
RECURSIVE ExtractPassInline(_, _)
ExtractPassInline(word, st) ==
    IF word = <<>> THEN st
    ELSE LET la == Head(word)
             idx == FindLetter(st.letter_clues, la.letter)
         IN ExtractPassInline(Tail(word),
            CASE la.answer = "Correct" ->
                    [st EXCEPT !.pattern = Append(@, Letter(la.letter)),
                               !.letter_clues = CountLetter(@, la.letter)]
              [] la.answer = "Incorrect" ->
                    [st EXCEPT !.pattern = Append(@, Exclude(<<la.letter>>)),
                               !.letter_clues = CountLetter(@, la.letter)]
              [] la.answer = "NotInWord" ->
                    IF idx # 0
                    THEN [st EXCEPT !.pattern = Append(@, Exclude(<<la.letter>>)),
                                    !.letter_clues[idx].exact = TRUE]
                    ELSE [st EXCEPT !.pattern = Append(@, Exclude(<<la.letter>>)),
                                    !.exclude = Append(@, la.letter)])

ExtractClueInOnePass(word) ==
    LET pass == ExtractPassInline(word, [pattern |-> <<>>, letter_clues |-> <<>>, exclude |-> <<>>])
    IN WordClue(
        [i \in 1..Len(pass.pattern) |->
            IF pass.pattern[i].tag = "Exclude"
            THEN Exclude(Dedup(SortedChars(pass.pattern[i].v \o pass.exclude)))
            ELSE pass.pattern[i]],
        pass.letter_clues)

extract_clue(word) ==
    LET pass == ExtractPass(word, [pattern |-> <<>>, letter_clues |-> <<>>, exclude |-> <<>>])
        res == ResolveExclude(pass.exclude, [letter_clues |-> pass.letter_clues, result |-> <<>>])
    IN WordClue(
        [i \in 1..Len(pass.pattern) |->
            IF pass.pattern[i].tag = "Exclude"
            THEN Exclude(Dedup(SortedChars(pass.pattern[i].v \o res.result)))
            ELSE pass.pattern[i]],
        res.letter_clues)

----------------------------------------------------------------------------
(* extract_answer.                                                         *)

\* the character class [A-Za-zçÇ]
IsTokenLetter(c) == c \in UpperLetters \cup LowerLetters \cup {"ç", "Ç"}

\* check_pattern: ^([A-Za-zçÇ][0-2])+$
CheckPattern(token) ==
    /\ Len(token) > 0
    /\ Len(token) % 2 = 0
    /\ \A i \in 1..Len(token) :
          IF i % 2 = 1 THEN IsTokenLetter(token[i]) ELSE token[i] \in Digits02

AnswerType(d) ==
    CASE d = "0" -> "NotInWord"
      [] d = "1" -> "Incorrect"
      [] d = "2" -> "Correct"

ExtractAnswerAnyLength(token) ==
    IF ~(Len(token) > 0 /\ \A i \in 1..Len(token) :
            IF i % 2 = 1 THEN IsTokenLetter(token[i]) ELSE token[i] \in Digits02)
    THEN Err(<<"Invalid token", token>>)
    ELSE Ok([k \in 1..(Len(token) \div 2) |->
                LetterAnswer(ToUpperChar(token[2 * k - 1]), AnswerType(token[2 * k]))])

\* captures_iter yields the (letter, digit) pairs of a checked token in order
extract_answer(token) ==
    IF ~CheckPattern(token)
    THEN Err(<<"Invalid token", token>>)
    ELSE Ok([k \in 1..(Len(token) \div 2) |->
                LetterAnswer(ToUpperChar(token[2 * k - 1]), AnswerType(token[2 * k]))])

----------------------------------------------------------------------------
(* filter: the regular expressions it builds, by what is_match does.       *)

\* one atom of the pattern regex against one char: `l` or `[^v]`
AtomMatches(p, c) ==
    IF p.tag = "Letter" THEN c = p.l ELSE c \notin Range(p.v)

\* pattern.is_match(w): the atoms match some run of consecutive chars of w
\* (the regex is not anchored)
PatternIsMatch(pattern, w) ==
    \E k \in 0..(Len(w) - Len(pattern)) :
        \A i \in 1..Len(pattern) : AtomMatches(pattern[i], w[k + i])

\* p.is_match(w) for ([^l]*l){c} (exact) and ([^l]*l){c,} (not exact): some
\* substring of w is c (or at least c) blocks, each a run of other chars
\* closed by l (the regex is not anchored)
LetterIsMatch(wl, w) ==
    \/ wl.count = 0
    \/ \E i \in 1..Len(w) : \E j \in i..Len(w) :
          /\ w[j] = wl.letter
          /\ LET blocks == CountChar(wl.letter, SubSeq(w, i, j)) IN
             IF wl.exact THEN blocks = wl.count ELSE blocks >= wl.count

FilterPatternOnly(clue, words) ==
    SelectSeq(words, LAMBDA w : PatternIsMatch(clue.pattern, w))

filter(clue, words) ==
    SelectSeq(words, LAMBDA w :
        /\ PatternIsMatch(clue.pattern, w)
        /\ \A i \in 1..Len(clue.letters) : LetterIsMatch(clue.letters[i], w))

----------------------------------------------------------------------------
(* Sorting and grouping of keyed items: an item is <<key, value>>.         *)

\* sorted_by_key / sort_by_key: ascending by key and stable (the item at i
\* lands after the items of smaller key and the items of equal key before i)
SortedByKey(items) ==
    LET rank(i) == Cardinality({j \in 1..Len(items) :
                        \/ items[j][1] < items[i][1]
                        \/ items[j][1] = items[i][1] /\ j <= i})
    IN [p \in 1..Len(items) |-> items[CHOOSE i \in 1..Len(items) : rank(i) = p]]

\* Iterator::rev
Rev(s) == [i \in 1..Len(s) |-> s[Len(s) + 1 - i]]

\* group_by on the key: the runs of consecutive items of equal key, as
\* <<key, values>>
GroupByKey(items) ==
    LET starts == {i \in 1..Len(items) : i = 1 \/ items[i][1] # items[i - 1][1]}
        start(g) == CHOOSE i \in starts : Cardinality({j \in starts : j <= i}) = g
        end(g) == IF g = Cardinality(starts) THEN Len(items) ELSE start(g + 1) - 1
    IN [g \in 1..Cardinality(starts) |->
            <<items[start(g)][1], [k \in 1..(end(g) - start(g) + 1) |-> items[start(g) + k - 1][2]]>>]

----------------------------------------------------------------------------
(* get_words, get_frequency, score, weighted_score.                        *)

None == [tag |-> "None", val |-> <<>>]
Some(v) == [tag |-> "Some", val |-> v]

\* corpus.iter().find(|(l, _)| l == &length).map(|(_, w)| w)
get_words(index, length) ==
    IF \E i \in 1..Len(index) : index[i][1] = length
    THEN LET first == CHOOSE i \in 1..Len(index) :
                        /\ index[i][1] = length
                        /\ \A j \in 1..(i - 1) : index[j][1] # length
         IN Some(index[first][2])
    ELSE None

\* word.chars().sorted().group_by(|c| *c).map(|(c, g)| (c, g.count()))
get_frequency(word) ==
    LET groups == GroupByKey([i \in 1..Len(word) |-> <<SortedChars(word)[i], 1>>])
    IN [i \in 1..Len(groups) |-> <<groups[i][1], Len(groups[i][2])>>]

\* frequency.iter().find(|(l, _)| l == c): the index of the entry, 0 when none
FindFrequency(frequency, c) ==
    IF \E i \in 1..Len(frequency) : frequency[i][1] = c
    THEN CHOOSE i \in 1..Len(frequency) :
            /\ frequency[i][1] = c
            /\ \A j \in 1..(i - 1) : frequency[j][1] # c
    ELSE 0

RECURSIVE score(_, _)
score(expected, frequency) ==
    IF expected = <<>> THEN 0
    ELSE LET c == Head(expected)[1]
             f == Head(expected)[2]
             idx == FindFrequency(frequency, c)
         IN (IF idx = 0 THEN 0
             ELSE IF frequency[idx][2] <= f THEN frequency[idx][2] ELSE f)
            + score(Tail(expected), frequency)

RECURSIVE weighted_score(_, _)
weighted_score(expected, frequency) ==
    IF expected = <<>> THEN 0
    ELSE (IF FindFrequency(frequency, Head(expected)[1]) # 0 THEN Head(expected)[2] ELSE 0)
         + weighted_score(Tail(expected), frequency)

----------------------------------------------------------------------------
(* main: the corpus index built at startup.                                *)

\* data/corpus.txt, one word per line, in file order
CorpusFile ==
    << <<"P","O","P","P","Y">>, <<"S","A","S">>, <<"S","U","P","E","R">>,
       <<"A","Ç","A">>, <<"S","A">>, <<"S","E","S">>, <<"S","O","P","P","Y">>,
       <<"A","S","S">>, <<"A","S">>, <<"T","O","P","O","S">>, <<"S","A","S","S">>,
       <<"P","E","Ç","A","S">>, <<"P","A","P","E","R">>, <<"A","A","S">>,
       <<"A","S","S","A">>, <<"S","S","A">>, <<"A","P","P","L","E">> >>

\* lines().sorted_by_key(|w| w.len()).group_by(|w| w.len()): w.len() is the
\* length in bytes
BuildCorpus(lines) ==
    GroupByKey(SortedByKey([i \in 1..Len(lines) |-> <<ByteLen(lines[i]), lines[i]>>]))

RECURSIVE Flatten(_)
Flatten(seqs) == IF seqs = <<>> THEN <<>> ELSE Head(seqs) \o Flatten(Tail(seqs))

\* words.iter().map(|w| get_frequency(w)).fold(Vec::new(), ..): one entry per
\* letter, in the order the letters are first met, counting the words that
\* hold the letter (each get_frequency lists a letter once)
FoldPresence(words) ==
    LET met == Flatten([k \in 1..Len(words) |->
                    [i \in 1..Len(get_frequency(words[k])) |-> get_frequency(words[k])[i][1]]])
        firsts == {i \in 1..Len(met) : \A j \in 1..(i - 1) : met[j] # met[i]}
        nth(p) == CHOOSE i \in firsts : Cardinality({j \in firsts : j <= i}) = p
    IN [p \in 1..Cardinality(firsts) |->
            <<met[nth(p)], Cardinality({k \in 1..Len(words) : met[nth(p)] \in Range(words[k])})>>]

\* freq.sort_by_key(|(_, f)| *f); freq.into_iter().rev()
BuildMostCommon(index) ==
    [b \in 1..Len(index) |->
        LET freq == FoldPresence(index[b][2])
            byf == Rev(SortedByKey([i \in 1..Len(freq) |-> <<freq[i][2], freq[i][1]>>]))
        IN <<index[b][1], [i \in 1..Len(byf) |-> <<byf[i][2], byf[i][1]>>]>>]

----------------------------------------------------------------------------
(* The request handlers.                                                   *)

NoRequest == [api |-> "none", path |-> <<>>, n |-> 0, pattern |-> <<>>]
NoResult == [tag |-> "None", val |-> <<>>, err |-> <<>>]
NoResponse == [status |-> "none", error |-> <<>>, body |-> <<>>, scans |-> 0]

\* ErrorBadRequest(e): the request ends before line 206
BadRequest(e) == [status |-> "BadRequest", error |-> e, body |-> <<>>, scans |-> 0]
\* Ok(web::Json(body))
Json(body, scans) == [status |-> "Ok", error |-> <<>>, body |-> body, scans |-> scans]

\* the loop of api_words: result = merge(result, clue)? for each clue in order
RECURSIVE MergeAll(_, _)
MergeAll(acc, rest) ==
    IF rest = <<>> THEN Ok(acc)
    ELSE LET m == merge(acc, Head(rest)) IN
         IF m.tag = "Err" THEN m ELSE MergeAll(m.val, Tail(rest))

\* clues.pop(), then the loop over what is left
FoldClues(cs) ==
    IF cs = <<>> THEN Err(<<"Empty pattern">>)
    ELSE MergeAll(cs[Len(cs)], SubSeq(cs, 1, Len(cs) - 1))

\* path.to_uppercase().split('/').map(|token| extract_answer(token).map(extract_clue))
\*     .collect::<Result<Vec<_>, _>>()
ParseClues(path) ==
    LET tokens == split(to_uppercase(path), "/") IN
    CollectResults([i \in 1..Len(tokens) |->
        LET a == extract_answer(tokens[i]) IN
        IF a.tag = "Ok" THEN Ok(extract_clue(a.val)) ELSE a])

\* get_words(&state.corpus, clue.pattern.len()).map_or(vec![], |words| filter(&clue, words))
LookupAndFilter(index, clue) ==
    LET words == get_words(index, Len(clue.pattern)) IN
    IF words.tag = "None" THEN <<>> ELSE filter(clue, words.val)

\* the handler: what it collected, what it folded and what it replies
api_words(path, index) ==
    LET parsed == ParseClues(path) IN
    IF parsed.tag = "Err"
    THEN [clues |-> <<>>, result |-> NoResult, response |-> BadRequest(parsed.err)]
    ELSE LET folded == FoldClues(parsed.val) IN
         IF folded.tag = "Err"
         THEN [clues |-> parsed.val, result |-> folded, response |-> BadRequest(folded.err)]
         ELSE [clues |-> parsed.val, result |-> folded,
               response |-> Json(LookupAndFilter(index, folded.val), 1)]

\* .sorted_by_key(|(_, s)| *s).rev().group_by(|(_, s)| *s).into_iter().next()
\*     .map_or(vec!["".to_string()], |(_, grp)| grp.map(|(w, _)| w.to_owned()).collect())
\* on the words scored as <<score, word>>
TopGroup(scored) ==
    LET groups == GroupByKey(Rev(SortedByKey(scored))) IN
    IF groups = <<>> THEN << <<>> >> ELSE groups[1][2]

api_most_letters(n, pattern, index) ==
    LET freq == get_frequency(to_uppercase(pattern))
        ws == get_words(index, n)
    IN IF ws.tag = "None" THEN << <<>> >>
       ELSE TopGroup([i \in 1..Len(ws.val) |->
                <<score(freq, get_frequency(ws.val[i])), ws.val[i]>>])

\* zip(get_words(corpus, n), get_words(most_common, n)): one pair when both are Some
api_most_common(n, index, common) ==
    LET ws == get_words(index, n)
        mc == get_words(common, n)
    IN IF ws.tag = "None" \/ mc.tag = "None" THEN << <<>> >>
       ELSE TopGroup([i \in 1..Len(ws.val) |->
                <<weighted_score(mc.val, get_frequency(ws.val[i])), ws.val[i]>>])

\* the routes: /api/words/{pattern:[/a-zA-ZçÇ0-2]+} and
\* /api/most_letters/{n}/{pattern:[a-zA-ZçÇ]+}
RouteWords(path) ==
    /\ path # <<>>
    /\ \A i \in 1..Len(path) : IsTokenLetter(path[i]) \/ path[i] \in Digits02 \/ path[i] = "/"

RouteMostLetters(pattern) ==
    /\ pattern # <<>>
    /\ \A i \in 1..Len(pattern) : IsTokenLetter(pattern[i])

----------------------------------------------------------------------------
(* The requests the model sends.                                           *)

\* the strings of exactly n chars over the set chars
Strings(chars, n) == [1..n -> chars]

\* the guess tokens of n letters over the set letters: every verdict of each
GuessTokens(letters, n) ==
    {[i \in 1..(2 * n) |-> IF i % 2 = 1 THEN s[(i + 1) \div 2][1] ELSE s[i \div 2][2]] :
        s \in Strings(letters \X Digits02, n)}

RECURSIVE JoinPath(_)
\* the tokens joined by "/"
JoinPath(tokens) ==
    IF Len(tokens) = 1 THEN tokens[1]
    ELSE tokens[1] \o <<"/">> \o JoinPath(Tail(tokens))

PathChars == {"S", "a", "0", "2", "/"}

Apple == <<"A","0","P","1","P","2","L","0","E","0">>

ScenarioPaths ==
    { Apple,
      Apple \o <<"/">> \o <<"S","1","O","1","U","0","P","1","Y","0">>,
      Apple \o <<"/">> \o <<"S","0","A","0","P","2","P","0","E","0","R","0">>,
      <<"S","2","S","0","A","0">>,
      <<"s","2","s","0","a","0">>,
      <<"A","2","Ç","2","A","2">>,
      <<"a","1","ç","0","s","2">>,
      <<"P","2","E","2","Ç","2","A","2","S","2">>,
      <<"T","0","O","2","P","2","O","0","S","1">> }

RankPatterns ==
    { <<"A","S">>, <<"s">>, <<"P","O","P","P","Y">>, <<"Ç">>, <<"E","A","S","S">> }

MergeLetters2 == {"A", "S"}

\* the tokens of a request of g guesses: 1..MaxSize - g letters each
MergeTokens(g) == UNION {GuessTokens(MergeLetters2, n) : n \in 1..(MaxSize - g)}

MismatchPath == Apple \o <<"/">> \o <<"S","0","A","0","P","2","P","0","E","0","R","0">>

----------------------------------------------------------------------------
(* The server.                                                             *)

Init ==
    /\ corpus = BuildCorpus(CorpusFile)
    /\ most_common = BuildMostCommon(BuildCorpus(CorpusFile))
    /\ secret = <<>>
    /\ request = NoRequest
    /\ clues = <<>>
    /\ result = NoResult
    /\ response = NoResponse

\* the router hands a request to its handler
Route(req) ==
    /\ request = NoRequest
    /\ request' = req
    /\ UNCHANGED <<corpus, most_common, secret, clues, result, response>>

WordsRequest(path) == [api |-> "words", path |-> path, n |-> 0, pattern |-> <<>>]
MostLettersRequest(n, pattern) == [api |-> "most_letters", path |-> <<>>, n |-> n, pattern |-> pattern]
MostCommonRequest(n) == [api |-> "most_common", path |-> <<>>, n |-> n, pattern |-> <<>>]

\* GET /api/words/{path}
ApiWords ==
    /\ request.api = "words"
    /\ response = NoResponse
    /\ \E r \in {api_words(request.path, corpus)} :
          /\ clues' = r.clues
          /\ result' = r.result
          /\ response' = r.response
    /\ UNCHANGED <<corpus, most_common, secret, request>>

\* GET /api/most_letters/{n}/{pattern}
ApiMostLetters ==
    /\ request.api = "most_letters"
    /\ response = NoResponse
    /\ response' = Json(api_most_letters(request.n, request.pattern, corpus), 1)
    /\ UNCHANGED <<corpus, most_common, secret, request, clues, result>>

\* GET /api/most_common/{n}
ApiMostCommon ==
    /\ request.api = "most_common"
    /\ response = NoResponse
    /\ response' = Json(api_most_common(request.n, corpus, most_common), 1)
    /\ UNCHANGED <<corpus, most_common, secret, request, clues, result>>

\* the reply is sent and the request's values are dropped
Respond ==
    /\ response # NoResponse
    /\ request' = NoRequest
    /\ clues' = <<>>
    /\ result' = NoResult
    /\ response' = NoResponse
    /\ UNCHANGED <<corpus, most_common, secret>>

\* the requests a client sends: the scenarios, every short path over PathChars
\* the route accepts, and the two rankings
Receive ==
    /\ request = NoRequest
    /\ \/ \E path \in ScenarioPaths : RouteWords(path) /\ Route(WordsRequest(path))
       \/ \E n \in 1..MaxPathLen : \E path \in Strings(PathChars, n) :
             RouteWords(path) /\ Route(WordsRequest(path))
       \/ \E n \in 0..MaxRankLen : \E pattern \in RankPatterns :
             RouteMostLetters(pattern) /\ Route(MostLettersRequest(n, pattern))
       \/ \E n \in 0..MaxRankLen : Route(MostCommonRequest(n))

Next == Receive \/ ApiWords \/ ApiMostLetters \/ ApiMostCommon \/ Respond

Spec == Init /\ [][Next]_vars

\* requests of one or two guesses over two letters, and one of 5 and 6 letters
ReceiveMerge ==
    /\ request = NoRequest
    /\ \/ Route(WordsRequest(MismatchPath))
       \/ \E g \in 1..2 : \E ts \in Strings(MergeTokens(g), g) :
             Route(WordsRequest(JoinPath(ts)))

NextMerge == ReceiveMerge \/ ApiWords \/ Respond

SpecMerge == Init /\ [][NextMerge]_vars

\* requests of three or more guesses over two letters, of equal length
ReceiveFold ==
    /\ request = NoRequest
    /\ \E g \in 3..(MaxSize - 1) : \E n \in 1..(MaxSize - g) :
          \E ts \in Strings(GuessTokens(MergeLetters2, n), g) :
             Route(WordsRequest(JoinPath(ts)))

NextFold == ReceiveFold \/ ApiWords \/ Respond

SpecFold == Init /\ [][NextFold]_vars

----------------------------------------------------------------------------
(* A game: a secret word, guesses scored by the rule of Wordle, and the    *)
(* helper asked after every guess with all the scored guesses so far.      *)

GameLetters == {"A", "S"}

\* the digit of guess[i] against the secret s: 2 where the letters coincide;
\* elsewhere, left to right, 1 while unmatched occurrences of the letter
\* remain in s, and 0 after that
Verdict(guess, s, i) ==
    IF guess[i] = s[i] THEN "2"
    ELSE LET unmatched == Cardinality({j \in 1..Len(s) : s[j] = guess[i] /\ guess[j] # s[j]})
             taken == Cardinality({j \in 1..(i - 1) : guess[j] = guess[i] /\ guess[j] # s[j]})
         IN IF taken < unmatched THEN "1" ELSE "0"

ScoredToken(guess, s) ==
    [i \in 1..(2 * Len(guess)) |->
        IF i % 2 = 1 THEN guess[(i + 1) \div 2] ELSE Verdict(guess, s, i \div 2)]

GuessesPlayed == IF request = NoRequest THEN 0 ELSE Len(split(request.path, "/"))

InitGame ==
    /\ corpus = BuildCorpus(CorpusFile)
    /\ most_common = BuildMostCommon(BuildCorpus(CorpusFile))
    /\ secret \in Strings(GameLetters, GameLen)
    /\ request = NoRequest
    /\ clues = <<>>
    /\ result = NoResult
    /\ response = NoResponse

\* the player scores one more guess and asks the helper again
Guess ==
    /\ request = NoRequest \/ response # NoResponse
    /\ GuessesPlayed < MaxGuesses
    /\ \E guess \in Strings(GameLetters, GameLen) :
          request' = WordsRequest(
                IF request = NoRequest THEN ScoredToken(guess, secret)
                ELSE request.path \o <<"/">> \o ScoredToken(guess, secret))
    /\ clues' = <<>>
    /\ result' = NoResult
    /\ response' = NoResponse
    /\ UNCHANGED <<corpus, most_common, secret>>

NextGame == Guess \/ ApiWords

SpecGame == InitGame /\ [][NextGame]_vars

----------------------------------------------------------------------------
(* What the claims speak of.                                               *)

\* a words request has been served
Served == request.api = "words" /\ response # NoResponse

\* the tokens of the request as the client wrote them
Tokens == split(request.path, "/")

\* the guess behind clue i of the request
Answer(i) == extract_answer(to_uppercase(Tokens[i])).val

\* w meets the clue, letter by letter: every position, then every count
Satisfies(clue, w) ==
    /\ \A i \in 1..Len(clue.pattern) :
          /\ clue.pattern[i].tag = "Letter" => w[i] = clue.pattern[i].l
          /\ clue.pattern[i].tag = "Exclude" => w[i] \notin Range(clue.pattern[i].v)
    /\ \A j \in 1..Len(clue.letters) :
          IF clue.letters[j].exact
          THEN CountChar(clue.letters[j].letter, w) = clue.letters[j].count
          ELSE CountChar(clue.letters[j].letter, w) >= clue.letters[j].count

\* filter keeps w under the clue
Keeps(clue, w) == filter(clue, <<w>>) = <<w>>

\* the words a clue is tried on: every word of n letters over three letters
TestWords(n) == Strings({"A", "E", "S"}, n)

\* the letters of a clue as a mapping: letter -> (count, exact)
LettersMap(clue) == {clue.letters[j] : j \in 1..Len(clue.letters)}

OneEntryPerLetter(clue) ==
    \A i, j \in 1..Len(clue.letters) :
        clue.letters[i].letter = clue.letters[j].letter => i = j

\* C1: filter keeps a word of the clue's length if and only if the word meets
\* every position of the pattern and every letter count, exact counts
\* included: of the bucket the handler filtered, the reply holds exactly the
\* words that satisfy the merged clue.
C1_FilterKeepsExactlySatisfying ==
    (Served /\ response.status = "Ok") =>
        LET words == get_words(corpus, Len(result.val.pattern)) IN
        words.tag = "Some" =>
            \A k \in 1..Len(words.val) :
                Len(words.val[k]) = Len(result.val.pattern) =>
                    (words.val[k] \in Range(response.body)
                        <=> Satisfies(result.val, words.val[k]))

\* C2: the letters of an extracted clue are exactly the letters judged Correct
\* or Incorrect in the guess, one entry each, counting those verdicts, and
\* exact if and only if the letter is also judged NotInWord in the guess, in
\* any order; a guess without a repeated letter has no exact entry.
C2_ExtractClueLetters ==
    Served =>
        \A i \in 1..Len(clues) :
            LET word == Answer(i)
                hits(l) == {k \in 1..Len(word) :
                              word[k].letter = l /\ word[k].answer \in {"Correct", "Incorrect"}}
                absent(l) == \E k \in 1..Len(word) :
                              word[k].letter = l /\ word[k].answer = "NotInWord"
            IN /\ OneEntryPerLetter(clues[i])
               /\ {e.letter : e \in LettersMap(clues[i])}
                    = {word[k].letter : k \in {k \in 1..Len(word) :
                                            word[k].answer \in {"Correct", "Incorrect"}}}
               /\ \A e \in LettersMap(clues[i]) :
                    /\ e.count = Cardinality(hits(e.letter))
                    /\ e.exact <=> absent(e.letter)
               /\ (\A j, k \in 1..Len(word) : word[j].letter = word[k].letter => j = k)
                    => \A e \in LettersMap(clues[i]) : ~e.exact

\* a guess whose letter is judged NotInWord first and Correct or Incorrect
\* later has been extracted, and the entry is exact
C2_Witness ==
    /\ Served
    /\ \E i \in 1..Len(clues) : \E j, k \in 1..Len(Answer(i)) :
          /\ j < k
          /\ Answer(i)[j].letter = Answer(i)[k].letter
          /\ Answer(i)[j].answer = "NotInWord"
          /\ Answer(i)[k].answer \in {"Correct", "Incorrect"}
          /\ \E e \in LettersMap(clues[i]) : e.letter = Answer(i)[j].letter /\ e.exact

\* the request was two guesses and merge(a, b) succeeded: a the last guess's
\* clue, b the first's
MergedTwo == Served /\ Len(clues) = 2 /\ result.tag = "Ok"

\* some position fixes in one clue a letter the other clue excludes there
Shadowed(a, b) ==
    \E i \in 1..Len(a.pattern) :
        \/ a.pattern[i].tag = "Letter" /\ b.pattern[i].tag = "Exclude"
              /\ a.pattern[i].l \in Range(b.pattern[i].v)
        \/ b.pattern[i].tag = "Letter" /\ a.pattern[i].tag = "Exclude"
              /\ b.pattern[i].l \in Range(a.pattern[i].v)

\* C3 as stated: merge is the conjunction of its inputs: filter keeps a word
\* under merge(a, b) if and only if it keeps it under a and under b.
C3_MergeIsConjunction ==
    MergedTwo =>
        \A w \in TestWords(Len(result.val.pattern)) :
            Keeps(result.val, w) <=> (Keeps(clues[2], w) /\ Keeps(clues[1], w))

\* C3 as amended: every word filter keeps under a and under b it keeps under
\* merge(a, b); the converse holds unless some position fixes in one clue a
\* letter the other clue excludes there (merge keeps the fixed letter and
\* drops the exclusion).
C3_MergeKeepsConjunction ==
    MergedTwo =>
        \A w \in TestWords(Len(result.val.pattern)) :
            /\ (Keeps(clues[2], w) /\ Keeps(clues[1], w)) => Keeps(result.val, w)
            /\ (~Shadowed(clues[2], clues[1]) /\ Keeps(result.val, w))
                  => (Keeps(clues[2], w) /\ Keeps(clues[1], w))

\* two different clues merged, a word kept under both and under the merge,
\* and a word kept under one clue only
C3_Witness ==
    /\ MergedTwo
    /\ clues[1] # clues[2]
    /\ ~Shadowed(clues[2], clues[1])
    /\ \E w \in TestWords(Len(result.val.pattern)) :
          Keeps(clues[2], w) /\ Keeps(clues[1], w) /\ Keeps(result.val, w)
    /\ \E w \in TestWords(Len(result.val.pattern)) :
          Keeps(clues[2], w) /\ ~Keeps(clues[1], w) /\ ~Keeps(result.val, w)

\* two Letter constraints of one position disagree
Disagree(a, b) ==
    \E i \in 1..Len(a.pattern) :
        /\ a.pattern[i].tag = "Letter"
        /\ b.pattern[i].tag = "Letter"
        /\ a.pattern[i].l # b.pattern[i].l

\* C4: merge(a, b) fails with the length mismatch if and only if the patterns
\* differ in length, whatever the positions hold; of equal lengths it fails
\* with the conflict if and only if two fixed letters of one position
\* disagree; otherwise it succeeds with a pattern of the same length. Clues
\* of 5 and 6 letters fail with the length mismatch.
C4_MergeErrors ==
    (Served /\ Len(clues) = 2) =>
        LET a == clues[2]
            b == clues[1]
        IN /\ (result.tag = "Err" /\ result.err[1] = "Pattern length mismatch")
                <=> Len(a.pattern) # Len(b.pattern)
           /\ Len(a.pattern) = Len(b.pattern) =>
                /\ (result.tag = "Err" /\ result.err[1] = "Conflict") <=> Disagree(a, b)
                /\ ~Disagree(a, b) =>
                      result.tag = "Ok" /\ Len(result.val.pattern) = Len(a.pattern)
           /\ result.tag \in {"Ok", "Err"}
           /\ ({Len(a.pattern), Len(b.pattern)} = {5, 6}) =>
                result = Err(<<"Pattern length mismatch", Len(a.pattern), Len(b.pattern)>>)

\* clues of 5 and 6 letters, whose first positions would also disagree or
\* merge, have failed with the length mismatch
C4_Witness ==
    /\ Served
    /\ Len(clues) = 2
    /\ Len(clues[1].pattern) = 5
    /\ Len(clues[2].pattern) = 6
    /\ result.tag = "Err"
    /\ result.err[1] = "Pattern length mismatch"
    /\ response.status = "BadRequest"

\* two merges end alike: both fail, or both succeed with equal clues
SameOutcome(r1, r2) ==
    \E x \in {r1} : \E y \in {r2} :
        \/ x.tag = "Err" /\ y.tag = "Err"
        \/ /\ x.tag = "Ok"
           /\ y.tag = "Ok"
           /\ x.val.pattern = y.val.pattern
           /\ LettersMap(x.val) = LettersMap(y.val)
           /\ OneEntryPerLetter(x.val)
           /\ OneEntryPerLetter(y.val)

\* merge(a, merge(b, c)) and merge(merge(a, b), c)
MergeRight(a, r) == IF r.tag = "Err" THEN r ELSE merge(a, r.val)
MergeLeft(r, c) == IF r.tag = "Err" THEN r ELSE merge(r.val, c)

\* the clues folded in the order p, a permutation of their indices
FoldInOrder(p) == MergeAll(clues[p[1]], [k \in 1..(Len(clues) - 1) |-> clues[p[k + 1]]])

Orders(n) == {p \in [1..n -> 1..n] : \A i, j \in 1..n : p[i] = p[j] => i = j}

WordsOfLength(n) == SelectSeq(CorpusFile, LAMBDA w : Len(w) = n)

\* C6: the filtering path returns exactly the corpus words of n letters, the
\* accented letter counting as one, that the clue keeps, in corpus file
\* order, n being the pattern length of the merged clue; it returns the empty
\* sequence when the corpus has no word of n letters.
C6_WordsOfClueLength ==
    (Served /\ response.status = "Ok") =>
        response.body = filter(result.val, WordsOfLength(Len(result.val.pattern)))

\* the words of seq whose key is the largest key of seq, in the order of seq
MaxScored(ws, key(_)) ==
    SelectSeq(ws, LAMBDA w : \A k \in 1..Len(ws) : key(ws[k]) <= key(w))

\* the bucket of n, or no word when there is none
Bucket(n) == IF get_words(corpus, n).tag = "Some" THEN get_words(corpus, n).val ELSE <<>>

OverlapScore(w) == score(get_frequency(to_uppercase(request.pattern)), get_frequency(w))

CommonScore(w) == weighted_score(get_words(most_common, request.n).val, get_frequency(w))

\* C7: both ranking operations return exactly the words of the bucket of n
\* whose score is the maximum over the bucket, all of them, in the order of
\* the bucket; the list holding only the empty string when the bucket is
\* absent or empty.
C7_RankingKeepsBucketOrder ==
    (request.api \in {"most_letters", "most_common"} /\ response # NoResponse) =>
        /\ response.status = "Ok"
        /\ Bucket(request.n) = <<>> => response.body = << <<>> >>
        /\ (Bucket(request.n) # <<>> /\ request.api = "most_letters") =>
              response.body = MaxScored(Bucket(request.n), OverlapScore)
        /\ (Bucket(request.n) # <<>> /\ request.api = "most_common") =>
              response.body = MaxScored(Bucket(request.n), CommonScore)

\* a token as the interface defines it: a non-empty sequence of pairs, an
\* ASCII letter or the accented letter, then a digit of 0..2
AsciiLetter(c) == (CodePoint(c) >= 65 /\ CodePoint(c) <= 90) \/ (CodePoint(c) >= 97 /\ CodePoint(c) <= 122)

ValidToken(t) ==
    /\ Len(t) >= 2
    /\ \E n \in 1..Len(t) :
          /\ Len(t) = 2 * n
          /\ \A k \in 1..n :
                /\ AsciiLetter(t[2 * k - 1]) \/ CodePoint(t[2 * k - 1]) \in {199, 231}
                /\ CodePoint(t[2 * k]) \in 48..50

FirstInvalid == CHOOSE i \in 1..Len(Tokens) :
                    ~ValidToken(Tokens[i]) /\ \A j \in 1..(i - 1) : ValidToken(Tokens[j])

\* the merged clue carries the constraints of clue c
Carries(merged, c) ==
    /\ Len(merged.pattern) = Len(c.pattern)
    /\ \A k \in 1..Len(c.pattern) :
          /\ c.pattern[k].tag = "Letter" => merged.pattern[k] = c.pattern[k]
          /\ merged.pattern[k].tag = "Exclude" =>
                Range(c.pattern[k].v) \subseteq Range(merged.pattern[k].v)
    /\ \A e \in LettersMap(c) : \E m \in LettersMap(merged) :
          m.letter = e.letter /\ m.count >= e.count /\ (e.exact => m.exact)

\* C8: a request of guess tokens ends in one of two ways: a single error
\* (invalid token, length mismatch or conflict), no scan of the corpus and
\* no word returned; or one scan of the corpus with a clue merged from all
\* the guesses. The error is the invalid token, naming the first offending
\* token as the handler reads it (in upper case), if and only if some token
\* is not a non-empty sequence of (letter, digit) pairs, whatever the other
\* tokens hold.
C8_OneErrorOrOneScan ==
    Served =>
        /\ \/ /\ response.status = "BadRequest"
              /\ response.scans = 0
              /\ response.body = <<>>
              /\ response.error[1] \in {"Invalid token", "Pattern length mismatch", "Conflict"}
           \/ /\ response.status = "Ok"
              /\ response.scans = 1
              /\ response.error = <<>>
              /\ result.tag = "Ok"
              /\ Len(clues) = Len(Tokens)
              /\ \A i \in 1..Len(clues) : Carries(result.val, clues[i])
        /\ (response.status = "BadRequest" /\ response.error[1] = "Invalid token")
              <=> \E i \in 1..Len(Tokens) : ~ValidToken(Tokens[i])
        /\ (\E i \in 1..Len(Tokens) : ~ValidToken(Tokens[i])) =>
              response.error = <<"Invalid token", to_uppercase(Tokens[FirstInvalid])>>

\* an invalid token came after two valid tokens whose merge would fail, and
\* the invalid token is the error
C8_Witness ==
    /\ Served
    /\ Len(Tokens) = 3
    /\ ValidToken(Tokens[1])
    /\ ValidToken(Tokens[2])
    /\ ~ValidToken(Tokens[3])
    /\ merge(extract_clue(extract_answer(to_uppercase(Tokens[2])).val),
             extract_clue(extract_answer(to_uppercase(Tokens[1])).val)).tag = "Err"
    /\ response.status = "BadRequest"
    /\ response.error[1] = "Invalid token"
    /\ response.scans = 0

\* the guess A0P1P2L0E0 asked alone
AppleServed == Served /\ request.path = Apple

\* every word of the reply has P third, no P second, at least atLeast P and
\* none of A, L, E
AppleWords(atLeast) ==
    \A k \in 1..Len(response.body) :
        LET w == response.body[k] IN
        /\ Len(w) = 5
        /\ w[3] = "P"
        /\ w[2] # "P"
        /\ CountChar("P", w) >= atLeast
        /\ \A i \in 1..Len(w) : w[i] \notin {"A", "L", "E"}

\* C9 as stated: the token A0P1P2L0E0 alone yields the pattern [Excluded{A},
\* Excluded{P}, FixedLetter(P), Excluded{L}, Excluded{E}] and the letters A:
\* {1, false}, P: {2, false}, L: {1, false}, E: {1, false}; the reply has only
\* words with P third, no P second, at least one P, and no A, L or E.
C9_AppleAsStated ==
    AppleServed =>
        /\ result.tag = "Ok"
        /\ result.val.pattern = << Exclude(<<"A">>), Exclude(<<"P">>), Letter("P"),
                                   Exclude(<<"L">>), Exclude(<<"E">>) >>
        /\ LettersMap(result.val) = { WordClueLetter("A", 1, FALSE), WordClueLetter("P", 2, FALSE),
                                      WordClueLetter("L", 1, FALSE), WordClueLetter("E", 1, FALSE) }
        /\ AppleWords(1)

\* C9 as amended: the token A0P1P2L0E0 alone yields the pattern
\* [Excluded{A,E,L}, Excluded{A,E,L,P}, FixedLetter(P), Excluded{A,E,L},
\* Excluded{A,E,L}] and the letters P: {2, false} only (A, L and E, judged
\* NotInWord, are excluded at every open position and have no entry); the
\* reply has only words with P third, no P second, at least two P, and no A,
\* L or E.
C9_AppleAsExtracted ==
    AppleServed =>
        /\ result.tag = "Ok"
        /\ result.val.pattern = << Exclude(<<"A","E","L">>), Exclude(<<"A","E","L","P">>), Letter("P"),
                                   Exclude(<<"A","E","L">>), Exclude(<<"A","E","L">>) >>
        /\ result.val.letters = << WordClueLetter("P", 2, FALSE) >>
        /\ AppleWords(2)

\* the guess has been served, and the reply has words and left words of
\* five letters out
C9_Witness ==
    /\ AppleServed
    /\ response.status = "Ok"
    /\ response.body # <<>>
    /\ Len(response.body) < Len(Bucket(5))

\* the secret is a word of the bucket the handler filtered
SecretInCorpus ==
    \E k \in 1..Len(Bucket(Len(secret))) : Bucket(Len(secret))[k] = secret

\* C10: the true answer is never eliminated: after any number of guesses
\* scored against the secret by the rule of Wordle, the fold of merge over
\* the clues of the guesses, the last guess first, has not failed, filter
\* keeps the secret under the merged clue, and the reply holds the secret
\* whenever the corpus does.
C10_SecretNeverEliminated ==
    Served =>
        /\ response.status = "Ok"
        /\ result.tag = "Ok"
        /\ Len(clues) = GuessesPlayed
        /\ Keeps(result.val, secret)
        /\ SecretInCorpus => secret \in Range(response.body)

\* two different wrong guesses have been played, the secret is a word of the
\* corpus, and the reply holds it and has left other words of its length out
C10_Witness ==
    /\ Served
    /\ GuessesPlayed = 2
    /\ clues[1] # clues[2]
    /\ \A i \in 1..2 : \E k \in 1..Len(clues[i].pattern) : clues[i].pattern[k].tag = "Exclude"
    /\ SecretInCorpus
    /\ secret \in Range(response.body)
    /\ Len(response.body) < Len(Bucket(Len(secret)))

====
